---- MODULE Spec2Model ----
(***************************************************************************)
(* A model of src/py/palettize.py: the RadViz-style palette projections    *)
(* palettize, palettize_polar and palettize_logistic, and the helpers      *)
(* scale, reverse_normalize and logistic_map.                              *)
(*                                                                         *)
(* Numbers.  Python floats are modelled as exact rationals <<n, d>> in     *)
(* lowest terms with d > 0; binary64 rounding is not modelled.  The axis   *)
(* directions cos/sin(2*pi*i/m) are exact for the dimensions in Dims: the  *)
(* cosine is rational, and the sine is a rational multiple of one unit per *)
(* m (1 for m = 2, 4 and sqrt(3)/2 for m = 3), so v is kept as the         *)
(* rational coefficient of that unit.  len(points_)/n_layers is the true   *)
(* (Python 3) quotient.                                                    *)
(*                                                                         *)
(* Objects.  The inner lists of the point collection are objects on a      *)
(* heap, a sequence of vectors addressed by position; an outer list is a   *)
(* sequence of addresses.  copy.copy(points) copies the outer list only.   *)
(***************************************************************************)
EXTENDS Integers, Sequences, FiniteSets

VARIABLES heap,            \* the inner list objects: address -> vector
          points,          \* the caller's outer list: sequence of addresses
          layers,          \* the caller's layers: sequence of sequences of int
          n_layers,        \* argument n_layers
          zgap,            \* argument zgap
          fn,              \* the function being executed, "none" before a call
          pc,              \* "idle", "loop", "done" (returned), "failed" (raised)
          points_,         \* local points_: sequence of addresses
          m,               \* local m
          li,              \* position of `for layer in layers` (1-based)
          ii,              \* position of `for idx in layer` (1-based)
          wl, wc, count,   \* locals of the depth assigner
          palette_coords,  \* local dict: index -> <<u, v, w>>
          result,          \* what the call returned
          err              \* the exception that ended the call, or "none"

vars == <<heap, points, layers, n_layers, zgap, fn, pc, points_, m, li, ii,
          wl, wc, count, palette_coords, result, err>>

---------------------------------------------------------------------------
(* Bounds of the inputs.                                                   *)

\* most points of a call whose layers partition the point indices
MaxPoints == 4
\* most layers of a call
MaxLayers == 3
\* most layer entries of a call whose layers are arbitrary index lists
MaxTotal == 2

\* dimensions with exactly representable axis directions
Dims == {2, 3, 4}

\* the defaults of n_layers and zgap (zgap in units of the default gap)
DefaultNLayers == 0
DefaultZgap == 1

---------------------------------------------------------------------------
(* Exact rational arithmetic.                                              *)

Abs(x) == IF x < 0 THEN -x ELSE x

RECURSIVE GCD(_, _)
GCD(a, b) == IF b = 0 THEN a ELSE GCD(b, a % b)

Norm(n, d) ==
    LET s == IF d < 0 THEN -1 ELSE 1
        g == GCD(Abs(n), Abs(d))
    IN  IF n = 0 THEN <<0, 1>> ELSE <<(s * n) \div g, (s * d) \div g>>

Rat(n) == <<n, 1>>
Zero == <<0, 1>>
One == <<1, 1>>
Half == <<1, 2>>

RAdd(a, b) ==
    LET g == GCD(a[2], b[2])
        l == (a[2] \div g) * b[2]
    IN  Norm(a[1] * (l \div a[2]) + b[1] * (l \div b[2]), l)
RNeg(a) == <<-a[1], a[2]>>
RSub(a, b) == RAdd(a, RNeg(b))
RMul(a, b) == Norm(a[1] * b[1], a[2] * b[2])
\* a / b for b # 0
RDiv(a, b) == Norm(a[1] * b[2], a[2] * b[1])
RPos(a) == a[1] > 0

RECURSIVE RPow(_, _)
RPow(a, p) == IF p = 0 THEN One ELSE RMul(a, RPow(a, p - 1))

\* math.fsum of a sequence of rationals
RECURSIVE fsum(_)
fsum(s) == IF s = <<>> THEN Zero ELSE RAdd(s[1], fsum(Tail(s)))

---------------------------------------------------------------------------
(* The vector preprocessors.  Each builds new inner lists and a new outer  *)
(* list: the value is the heap after the allocations and the new list.     *)

\* [f**factor for f in point]
ScaleVec(vec, factor) == [i \in 1..Len(vec) |-> RPow(vec[i], factor)]

\* [(1.0 - f) for f in point]
ReverseVec(vec) == [i \in 1..Len(vec) |-> RSub(One, vec[i])]

\* ((1/(1+exp(-A*(v-0.5)))) - p) / (q - p) for A = 15.0, on the coordinate
\* values of the inputs: exactly 0, 1/2, 1 at 0, 1/2, 1 (q = 1 - p), and
\* -0.000553... at -1/2 and 1.000553... at 3/2, kept to four decimals.
Logistic(v) ==
    CASE v = Zero -> Zero
      [] v = Half -> Half
      [] v = One -> One
      [] v = <<-1, 2>> -> <<-3, 5000>>
      [] v = <<3, 2>> -> <<5003, 5000>>

LogisticVec(vec) == [i \in 1..Len(vec) |-> Logistic(vec[i])]

\* faulty variant of scale: writes f**factor into the given inner lists
scale_in_place(h, pts, factor) ==
    [heap |-> [a \in 1..Len(h) |->
                  IF \E i \in 1..Len(pts) : pts[i] = a
                  THEN ScaleVec(h[a], factor) ELSE h[a]],
     list |-> pts]

\* points_ = []; for point in points: points_.append([...]); return points_
scale(h, pts, factor) ==
    [heap |-> h \o [i \in 1..Len(pts) |-> ScaleVec(h[pts[i]], factor)],
     list |-> [i \in 1..Len(pts) |-> Len(h) + i]]

reverse_normalize(h, pts) ==
    [heap |-> h \o [i \in 1..Len(pts) |-> ReverseVec(h[pts[i]])],
     list |-> [i \in 1..Len(pts) |-> Len(h) + i]]

logistic_map(h, pts) ==
    [heap |-> h \o [i \in 1..Len(pts) |-> LogisticVec(h[pts[i]])],
     list |-> [i \in 1..Len(pts) |-> Len(h) + i]]

\* copy.copy(points): a new outer list holding the same inner list objects
copy(pts) == pts

\* factor = 2.0 if m > 3 else 1.0
factor_normalized(mm) == IF mm > 3 THEN 2 ELSE 1

\* factor = 3.0 if m > 3 else 2.0
factor_polar(mm) == IF mm > 3 THEN 3 ELSE 2

---------------------------------------------------------------------------
(* The axis set S = [[cos(t), sin(t)] for t in 2*pi*i/m], i = 0..m-1.      *)

AxisCos(mm, i) ==
    CASE mm = 2 -> IF i = 0 THEN One ELSE <<-1, 1>>
      [] mm = 3 -> IF i = 0 THEN One ELSE <<-1, 2>>
      [] mm = 4 -> IF i = 0 THEN One ELSE IF i = 2 THEN <<-1, 1>> ELSE Zero

\* the coefficient of the sine unit of mm
AxisSin(mm, i) ==
    CASE mm = 2 -> Zero
      [] mm = 3 -> IF i = 0 THEN Zero ELSE IF i = 1 THEN One ELSE <<-1, 1>>
      [] mm = 4 -> IF i = 1 THEN One ELSE IF i = 3 THEN <<-1, 1>> ELSE Zero

S(mm) == [i \in 1..mm |-> <<AxisCos(mm, i - 1), AxisSin(mm, i - 1)>>]

---------------------------------------------------------------------------
(* The projection of one preprocessed point f (the loop body's u, v).      *)

Raised(e) == [err |-> e, u |-> Zero, v |-> Zero]

\* math.fsum([f[i] * t[k] for i,t in enumerate(S)]): needs len(f) >= m
Weighted(f, mm, k) == fsum([i \in 1..mm |-> RMul(f[i], S(mm)[i][k])])

\* x / y, raising ZeroDivisionError for y = 0
Quotient(x, y) ==
    IF y = Zero THEN Raised("ZeroDivisionError")
    ELSE [err |-> "none", u |-> RDiv(x, y), v |-> Zero]

\* faulty variant of the guard: if fsum >= 0.0
SumIsNonNegative(s) == s[1] >= 0

\* if fsum > 0.0:
SumIsPositive(s) == RPos(s)

\* faulty variant of the normalized projection: the sums are not divided
project_unnormalized(f, mm) ==
    LET s == fsum(f)
    IN  IF SumIsPositive(s)
        THEN IF Len(f) < mm THEN Raised("IndexError")
             ELSE [err |-> "none", u |-> Weighted(f, mm, 1), v |-> Weighted(f, mm, 2)]
        ELSE [err |-> "none", u |-> Zero, v |-> Zero]

\* u,v = 0.0, 0.0; fsum = math.fsum(f); if fsum > 0.0: u = .../fsum; v = .../fsum
project_normalized(f, mm) ==
    LET s == fsum(f)
    IN  IF SumIsPositive(s)
        THEN IF Len(f) < mm THEN Raised("IndexError")
             ELSE LET qu == Quotient(Weighted(f, mm, 1), s)
                      qv == Quotient(Weighted(f, mm, 2), s)
                  IN  IF qu.err # "none" THEN qu
                      ELSE [err |-> "none", u |-> qu.u, v |-> qv.u]
        ELSE [err |-> "none", u |-> Zero, v |-> Zero]

\* u = math.fsum([f[i] * t[0] ...]); v = math.fsum([f[i] * t[1] ...])
project_polar(f, mm) ==
    IF Len(f) < mm THEN Raised("IndexError")
    ELSE [err |-> "none", u |-> Weighted(f, mm, 1), v |-> Weighted(f, mm, 2)]

project(f_name, f, mm) ==
    IF f_name = "palettize_polar" THEN project_polar(f, mm)
    ELSE project_normalized(f, mm)

---------------------------------------------------------------------------
(* The depth assigner's tests.                                             *)

n_layers_orig == Len(layers)

\* faulty variant of the selection: n_layers_orig < n_layers
Depth_strict == IF n_layers = 0 \/ n_layers_orig < n_layers THEN wl ELSE wc

\* [u, v, wl] if n_layers == 0 or n_layers_orig <= n_layers else [u, v, wc]
Depth == IF n_layers = 0 \/ n_layers_orig <= n_layers THEN wl ELSE wc

\* faulty variant of the test: count > points_per_layer
reached_strictly(c) ==
    n_layers > 0 /\ c * n_layers > Len(points_)

\* faulty variant of the threshold: len(points_) // n_layers
reached_floor(c) ==
    n_layers > 0 /\ c >= Len(points_) \div n_layers

\* count >= points_per_layer, for
\* points_per_layer = len(points_)/n_layers if n_layers > 0 else float('inf')
reached_points_per_layer(c) ==
    n_layers > 0 /\ c * n_layers >= Len(points_)

\* points_[idx]: Python list indexing, negative indices count from the end
ValidIndex(idx) == -Len(points_) <= idx /\ idx < Len(points_)
Element(idx) ==
    IF idx >= 0 THEN points_[idx + 1] ELSE points_[Len(points_) + idx + 1]

---------------------------------------------------------------------------
(* The calls.  A call starts from "idle" with the caller's arguments in    *)
(* place and ends "done" (it returned `result`) or "failed" (it raised).   *)

NoResult == [kind |-> "none", map |-> <<>>, list |-> <<>>]
Mapping(d) == [kind |-> "mapping", map |-> d, list |-> <<>>]
List(l) == [kind |-> "list", map |-> <<>>, list |-> l]

\* faulty variant of the store: an index already present is kept
Store_first(d, idx, c) ==
    [k \in DOMAIN d \cup {idx} |-> IF k \in DOMAIN d THEN d[k] ELSE c]

\* faulty variant of the store: a negative index is stored under its position
Store_normalized(d, idx, c) ==
    LET key == IF idx < 0 THEN idx + Len(points_) ELSE idx
    IN  [k \in DOMAIN d \cup {key} |-> IF k = key THEN c ELSE d[k]]

\* palette_coords[idx] = c
Store(d, idx, c) ==
    [k \in DOMAIN d \cup {idx} |-> IF k = idx THEN c ELSE d[k]]

\* the statements before the loops, given the preprocessed points:
\* palette_coords = {}; wl, wc, count = 0.0, 0.0, 0
EnterLoop(f_name, pre, mm) ==
    /\ fn' = f_name
    /\ pc' = "loop"
    /\ heap' = pre.heap
    /\ points_' = pre.list
    /\ m' = mm
    /\ li' = 1
    /\ ii' = 1
    /\ wl' = 0
    /\ wc' = 0
    /\ count' = 0
    /\ palette_coords' = <<>>
    /\ UNCHANGED <<points, layers, n_layers, zgap, result, err>>

\* the call ends with an exception: nothing is returned
Raise(f_name, e) ==
    /\ fn' = f_name
    /\ pc' = "failed"
    /\ err' = e
    /\ UNCHANGED <<heap, points, layers, n_layers, zgap, points_, m, li, ii,
                   wl, wc, count, palette_coords, result>>

\* palettize, up to the loops: len(points_[0]) raises on an empty list
palettize ==
    /\ pc = "idle"
    /\ IF Len(copy(points)) = 0
       THEN Raise("palettize", "IndexError")
       ELSE LET mm == Len(heap[copy(points)[1]])
            IN  EnterLoop("palettize",
                          scale(heap, copy(points), factor_normalized(mm)), mm)

\* palettize_polar, up to the loops
palettize_polar ==
    /\ pc = "idle"
    /\ IF Len(points) = 0
       THEN Raise("palettize_polar", "IndexError")
       ELSE LET mm == Len(heap[points[1]])
                rev == reverse_normalize(heap, copy(points))
            IN  EnterLoop("palettize_polar",
                          scale(rev.heap, rev.list, factor_polar(mm)), mm)

\* palettize_logistic, up to the loops
palettize_logistic ==
    /\ pc = "idle"
    /\ LET pre == logistic_map(heap, copy(points))
       IN  IF Len(pre.list) = 0
           THEN Raise("palettize_logistic", "IndexError")
           ELSE EnterLoop("palettize_logistic", pre, Len(pre.heap[pre.list[1]]))

\* the current idx of `for layer in layers: for idx in layer:`
InLayer == pc = "loop" /\ li <= Len(layers)
AtPoint == InLayer /\ ii <= Len(layers[li])
CurrentIdx == layers[li][ii]

\* one pass of the inner loop's body that completes
ProcessPoint ==
    /\ AtPoint
    /\ ValidIndex(CurrentIdx)
    /\ LET r == project(fn, heap[Element(CurrentIdx)], m)
       IN  /\ r.err = "none"
           /\ palette_coords' = Store(palette_coords, CurrentIdx, <<r.u, r.v, Depth>>)
    /\ IF reached_points_per_layer(count + 1)
       THEN count' = 0 /\ wc' = wc - zgap
       ELSE count' = count + 1 /\ wc' = wc
    /\ ii' = ii + 1
    /\ UNCHANGED <<heap, points, layers, n_layers, zgap, fn, pc, points_, m,
                   li, wl, result, err>>

\* faulty variant of a raising pass: the mapping built so far is returned
ProcessPointReturnsPartial ==
    /\ AtPoint
    /\ \/ ~ValidIndex(CurrentIdx)
       \/ project(fn, heap[Element(CurrentIdx)], m).err # "none"
    /\ pc' = "done"
    /\ result' = Mapping(palette_coords)
    /\ UNCHANGED <<heap, points, layers, n_layers, zgap, fn, points_, m, li,
                   ii, wl, wc, count, palette_coords, err>>

\* one pass of the inner loop's body that raises: points_[idx] or f[i] is out
\* of range, or the division is by zero
ProcessPointRaises ==
    /\ AtPoint
    /\ IF ~ValidIndex(CurrentIdx)
       THEN Raise(fn, "IndexError")
       ELSE LET r == project(fn, heap[Element(CurrentIdx)], m)
            IN  r.err # "none" /\ Raise(fn, r.err)

\* faulty variant of the end of the inner loop: wl is not decremented there
EndLayer_dedented ==
    /\ InLayer
    /\ ii > Len(layers[li])
    /\ li' = li + 1
    /\ ii' = 1
    /\ UNCHANGED <<heap, points, layers, n_layers, zgap, fn, pc, points_, m,
                   wl, wc, count, palette_coords, result, err>>

\* the end of the inner loop: wl = wl - zgap
EndLayer ==
    /\ InLayer
    /\ ii > Len(layers[li])
    /\ wl' = wl - zgap
    /\ li' = li + 1
    /\ ii' = 1
    /\ UNCHANGED <<heap, points, layers, n_layers, zgap, fn, pc, points_, m,
                   wc, count, palette_coords, result, err>>

\* return palette_coords
Return ==
    /\ pc = "loop"
    /\ li > Len(layers)
    /\ pc' = "done"
    /\ result' = Mapping(palette_coords)
    /\ UNCHANGED <<heap, points, layers, n_layers, zgap, fn, points_, m, li,
                   ii, wl, wc, count, palette_coords, err>>

\* a call of a preprocessor on the caller's points
ReturnList(f_name, pre) ==
    /\ fn' = f_name
    /\ pc' = "done"
    /\ heap' = pre.heap
    /\ result' = List(pre.list)
    /\ UNCHANGED <<points, layers, n_layers, zgap, points_, m, li, ii, wl, wc,
                   count, palette_coords, err>>

call_scale ==
    /\ pc = "idle"
    /\ \E factor \in 1..3 : ReturnList("scale", scale(heap, points, factor))

call_reverse_normalize ==
    /\ pc = "idle"
    /\ ReturnList("reverse_normalize", reverse_normalize(heap, points))

---------------------------------------------------------------------------
(* The arguments of a call.                                                *)

RECURSIVE SortedSeq(_)
SortedSeq(set) ==
    IF set = {} THEN <<>>
    ELSE LET x == CHOOSE y \in set : \A z \in set : y <= z
         IN  <<x>> \o SortedSeq(set \ {x})

RECURSIVE SumTo(_, _)
SumTo(lens, l) == IF l = 0 THEN 0 ELSE lens[l] + SumTo(lens, l - 1)

\* layers that list each of the indices 0..n-1 once
PartitionLayers(n) ==
    UNION {{[l \in 1..k |-> SortedSeq({i \in 0..(n - 1) : a[i] = l})] :
              a \in [0..(n - 1) -> 1..k]} : k \in 0..MaxLayers}

\* layers of at most MaxTotal entries in all, drawn from -1..n
ArbitraryLayers(n) ==
    UNION {UNION {{[l \in 1..k |-> SubSeq(flat, SumTo(lens, l - 1) + 1, SumTo(lens, l))] :
                     lens \in {x \in [1..k -> 0..t] : SumTo(x, k) = t}} :
                  flat \in [1..t -> (-1)..n]} :
           <<t, k>> \in (0..MaxTotal) \X (0..MaxLayers)}

\* the coordinates of the points of the depth cases
DepthVec(i) == <<Half, Rat(i % 2)>>

SmallCoords == {Zero, Half}
WideCoords == {Zero, Half, One, <<3, 2>>}
AllCoords == {<<-1, 2>>, Zero, Half, One}
Vectors(coords) == UNION {[1..d -> coords] : d \in Dims}

InitCall(vecs, lay, n, z) ==
    /\ heap = vecs
    /\ points = [i \in 1..Len(vecs) |-> i]
    /\ layers = lay
    /\ n_layers = n
    /\ zgap = z
    /\ fn = "none"
    /\ pc = "idle"
    /\ points_ = <<>>
    /\ m = 0
    /\ li = 0
    /\ ii = 0
    /\ wl = 0
    /\ wc = 0
    /\ count = 0
    /\ palette_coords = <<>>
    /\ result = NoResult
    /\ err = "none"

\* well-formed layers: a partition of the point indices
InitPartition ==
    \E n \in 0..MaxPoints : \E lay \in PartitionLayers(n) :
    \E nl \in (-1)..MaxLayers : \E z \in {0, DefaultZgap, 2 * DefaultZgap} :
        InitCall([i \in 1..n |-> DepthVec(i)], lay, nl, z)

\* arbitrary layers: repeated, missing, negative and out-of-range indices
InitArbitrary ==
    \E n \in 1..MaxTotal : \E lay \in ArbitraryLayers(n) :
    \E nl \in (-1)..MaxLayers :
        InitCall([i \in 1..n |-> DepthVec(i)], lay, nl, DefaultZgap)

\* one point of any coordinates
InitOnePoint ==
    \E p \in Vectors(AllCoords) : \E z \in {0, DefaultZgap} :
        InitCall(<<p>>, <<<<0>>>>, DefaultNLayers, z)

\* two points of one dimension, in two layers
InitTwoPoints ==
    \E d \in Dims : \E p \in [1..d -> SmallCoords] : \E q \in [1..d -> WideCoords] :
        InitCall(<<p, q>>, <<<<0>>, <<1>>>>, DefaultNLayers, 2 * DefaultZgap)

\* two points of different dimensions
InitRagged ==
    \E p \in Vectors({Zero, One}) : \E q \in Vectors({Zero, One}) :
        /\ Len(p) # Len(q)
        /\ InitCall(<<p, q>>, <<<<0, 1>>>>, DefaultNLayers, DefaultZgap)

Init ==
    \/ InitPartition
    \/ InitArbitrary
    \/ InitOnePoint
    \/ InitTwoPoints
    \/ InitRagged

Next ==
    \/ palettize
    \/ palettize_polar
    \/ palettize_logistic
    \/ ProcessPoint
    \/ ProcessPointRaises
    \/ EndLayer
    \/ Return
    \/ call_scale
    \/ call_reverse_normalize

Spec == Init /\ [][Next]_vars

---------------------------------------------------------------------------
(* Vocabulary of the properties.                                           *)

Variants == {"palettize", "palettize_polar", "palettize_logistic"}

RECURSIVE LenSum(_, _)
LenSum(lay, l) == IF l = 0 THEN 0 ELSE Len(lay[l]) + LenSum(lay, l - 1)

\* the number of passes of the inner loop's body completed so far
Processed == LenSum(layers, li - 1) + ii - 1

\* the inner loop's body has just completed for layers[li][ii - 1]
JustProcessed == pc = "loop" /\ li <= Len(layers) /\ ii > 1
LastIdx == layers[li][ii - 1]
LastCoords == palette_coords[LastIdx]

\* the entries of all layers
Entries == UNION {{layers[k][q] : q \in 1..Len(layers[k])} : k \in 1..Len(layers)}

Ceil(a, b) == (a + b - 1) \div b

WlSelected == n_layers = 0 \/ Len(layers) <= n_layers

\* the layers have no index in common
Disjoint ==
    \A k1, k2 \in 1..Len(layers) :
        k1 # k2 => \A q1 \in 1..Len(layers[k1]) : \A q2 \in 1..Len(layers[k2]) :
                       layers[k1][q1] # layers[k2][q2]

\* the layers list every point index 0..len(points)-1 exactly once
IsPartition ==
    /\ LenSum(layers, Len(layers)) = Len(points)
    /\ Entries = 0..(Len(points) - 1)

\* the depth in force at the q-th entry of the k-th layer (both 1-based)
DepthAt(k, q) ==
    IF WlSelected THEN -((k - 1) * zgap)
    ELSE IF n_layers > 0
         THEN -(zgap * ((LenSum(layers, k - 1) + q - 1) \div Ceil(Len(points), n_layers)))
         ELSE 0

\* the last occurrence of idx in processing order
LastLayerOf(idx) ==
    CHOOSE k \in 1..Len(layers) :
        /\ \E q \in 1..Len(layers[k]) : layers[k][q] = idx
        /\ \A k2 \in (k + 1)..Len(layers) :
              \A q \in 1..Len(layers[k2]) : layers[k2][q] # idx
LastPlaceOf(idx, k) ==
    CHOOSE q \in 1..Len(layers[k]) :
        /\ layers[k][q] = idx
        /\ \A q2 \in (q + 1)..Len(layers[k]) : layers[k][q2] # idx

\* the caller's point collection, element for element
CallerPoints == [i \in 1..Len(points) |-> heap[points[i]]]

Times(k, vec) == [i \in 1..Len(vec) |-> RMul(Rat(k), vec[i])]
NonNegative(vec) == \A i \in 1..Len(vec) : vec[i][1] >= 0

---------------------------------------------------------------------------
C2_LayerIndexedDepth ==
    /\ pc = "loop" => wl = -((li - 1) * zgap)
    /\ (pc = "done" /\ result.kind = "mapping" /\ WlSelected /\ Disjoint) =>
          \A k \in 1..Len(layers) : \A q \in 1..Len(layers[k]) :
              result.map[layers[k][q]][3] = -((k - 1) * zgap)

\* layers [[0,1],[2,3]], zgap = 1, n_layers = 0: w = 0, 0, -1, -1
C2_Witness ==
    /\ pc = "done" /\ result.kind = "mapping"
    /\ layers = <<<<0, 1>>, <<2, 3>>>>
    /\ n_layers = 0
    /\ zgap = 1
    /\ result.map[0][3] = 0 /\ result.map[1][3] = 0
    /\ result.map[2][3] = -1 /\ result.map[3][3] = -1

(* C3.  For n_layers > 0 the counter and wc depend only on the number j of *)
(* points processed, over all layers in order: count = j mod c and         *)
(* wc = -zgap * (j div c) for c = ceil(len(points) / n_layers); with the   *)
(* wc track selected the j-th processed point (0-based) is written with    *)
(* w = -zgap * (j div c).                                                  *)
C3_CountIndexedDepth ==
    (pc = "loop" /\ n_layers > 0) =>
        LET c == Ceil(Len(points), n_layers)
        IN  /\ count = Processed % c
            /\ wc = -(zgap * (Processed \div c))
            /\ (JustProcessed /\ Len(layers) > n_layers) =>
                  LastCoords[3] = -(zgap * ((Processed - 1) \div c))

\* 3 points, n_layers = 2, three layers: the third point, in the third
\* layer, is the first of the second bucket
C3_Witness ==
    /\ JustProcessed
    /\ Len(points) = 3 /\ n_layers = 2 /\ Len(layers) = 3
    /\ li = 3 /\ Processed = 3
    /\ LastCoords[3] = -zgap
    /\ zgap > 0

(* C4.  With n_layers > 0, more layers than n_layers and layers that list  *)
(* every point index exactly once, every returned w is one of              *)
(* 0, -zgap, ..., -(n_layers - 1) * zgap.                                  *)
C4_Buckets ==
    (pc = "done" /\ result.kind = "mapping" /\ n_layers > 0
        /\ Len(layers) > n_layers /\ IsPartition) =>
        \A idx \in DOMAIN result.map :
            \E b \in 0..(n_layers - 1) : result.map[idx][3] = -(b * zgap)

\* a point count n_layers does not divide, the last bucket in use
C4_Witness ==
    /\ pc = "done" /\ result.kind = "mapping"
    /\ n_layers = 2 /\ Len(layers) > n_layers /\ IsPartition
    /\ Len(points) = 3
    /\ zgap > 0
    /\ \E idx \in DOMAIN result.map : result.map[idx][3] = -zgap

(* C5.  The keys of a returned mapping are exactly the indices that occur  *)
(* in some layer.                                                          *)
C5_OutputDomain ==
    (pc = "done" /\ result.kind = "mapping") => DOMAIN result.map = Entries

\* an index listed twice and a point listed in no layer
C5_Witness ==
    /\ pc = "done" /\ result.kind = "mapping"
    /\ Len(points) = 2
    /\ LenSum(layers, Len(layers)) = 2
    /\ DOMAIN result.map = {0}

(* C6.  An index's entry in the returned mapping carries the depth in      *)
(* force at its last occurrence in processing order, every occurrence      *)
(* having advanced the point counter.                                      *)
C6_LastWriteWins ==
    (pc = "done" /\ result.kind = "mapping") =>
        \A idx \in DOMAIN result.map :
            LET k == LastLayerOf(idx)
            IN  result.map[idx][3] = DepthAt(k, LastPlaceOf(idx, k))

\* an index listed in two layers of different depths
C6_Witness ==
    /\ pc = "done" /\ result.kind = "mapping"
    /\ Len(layers) >= 2
    /\ \E idx \in DOMAIN result.map :
          /\ layers[1] = <<idx>>
          /\ LastLayerOf(idx) > 1
          /\ result.map[idx][3] # 0

(* C7.  palettize and palettize_logistic never divide by zero, and a point *)
(* whose preprocessed coordinates do not sum to more than 0 is written     *)
(* with (u, v) = (0.0, 0.0).                                               *)
C7_ZeroSum ==
    /\ err # "ZeroDivisionError"
    /\ (JustProcessed /\ fn \in {"palettize", "palettize_logistic"}
          /\ ~RPos(fsum(heap[Element(LastIdx)]))) =>
          (LastCoords[1] = Zero /\ LastCoords[2] = Zero)

\* the all-zero point under the logistic variant
C7_Witness ==
    /\ JustProcessed
    /\ fn = "palettize_logistic"
    /\ LastIdx = 0
    /\ \A i \in 1..Len(CallerPoints[1]) : CallerPoints[1][i] = Zero
    /\ fsum(heap[Element(LastIdx)]) = Zero
    /\ LastCoords[1] = Zero /\ LastCoords[2] = Zero

(* C8.  No step of a call changes the caller's point collection, any of    *)
(* its point vectors, or the layers.                                       *)
C8_NoMutation ==
    [][/\ points' = points
       /\ CallerPoints' = CallerPoints
       /\ layers' = layers]_vars

\* palettize has returned after scaling 4-dimensional points by f**2.0
C8_Witness ==
    /\ pc = "done"
    /\ fn = "palettize"
    /\ m = 4
    /\ \E i \in 1..Len(points) : heap[points_[i]] # heap[points[i]]

C10_AllOrNothing ==
    /\ result.kind = "mapping" =>
          /\ pc = "done" /\ err = "none"
          /\ Processed = LenSum(layers, Len(layers))
          /\ Entries \subseteq DOMAIN result.map
          /\ result.map = palette_coords
    /\ pc = "failed" => result = NoResult
    /\ (pc = "done" /\ fn \in Variants) =>
          /\ result.kind = "mapping"
          /\ Len(points) > 0
          /\ \A idx \in Entries : -Len(points) <= idx /\ idx < Len(points)

\* a call that raised with part of the mapping built
C10_Witness ==
    /\ pc = "failed"
    /\ fn \in Variants
    /\ DOMAIN palette_coords # {}
    /\ result = NoResult

====
